---- MODULE Spec2Model ----
(***************************************************************************)
(* Model of life_display.py: the damped viewport of the life game display. *)
(*                                                                         *)
(*   Margin       one damped bound (value is None until the first call)    *)
(*   MarginFrame  four Margins (x_min, y_min, x_max, y_max) fed with the   *)
(*                extents of the live cells of a frame                     *)
(*                                                                         *)
(* Two specifications share the module:                                    *)
(*   Spec        a MarginFrame receiving an arbitrary sequence of cell     *)
(*               sets through MarginFrame.set                              *)
(*   SpecMargin  a single Margin receiving an arbitrary sequence of        *)
(*               set_min / set_max calls                                   *)
(*   SpecDraw    a LifeDisplay, a LifeDisplayAndGenerateImages0 or a       *)
(*               LifeDisplayAndGenerateImages receiving draw calls         *)
(*   SpecRepeat  a Margin, or a MarginFrame, in any state it can reach,    *)
(*               receiving one and the same call for ever                  *)
(*   SpecTrace   a Margin of margin 10 receiving at most four set_min      *)
(*               calls with arguments among 2, 5, 12, 20                   *)
(***************************************************************************)
EXTENDS Integers, FiniteSets, Sequences, TLC

(***************************************************************************)
(* Bounds of the model.                                                    *)
(***************************************************************************)
\* margins range over 0..MaxMargin (a margin is a fluctuation width)
MaxMargin == 2
\* cell coordinates of the MarginFrame specification range over 0..MaxCoord
MaxCoord == 1
\* a frame holds at most MaxCells live cells
MaxCells == 2
\* candidates of the Margin specification range over -MaxVal..MaxVal
MaxVal == 2
\* number of set_min / set_max calls made on one Margin object
MaxCalls == 5
\* small canvases are 1..MaxCanvas wide and high
MaxCanvas == 2
\* number of images a recording display collects
MaxFrames == 3

Margins == 0..MaxMargin
Coords == 0..MaxCoord
Cells == Coords \X Coords
CellSets == {d \in SUBSET Cells : Cardinality(d) <= MaxCells}
Values == (0 - MaxVal)..MaxVal

\* the margin LifeDisplay gives to its MarginFrame
MARGIN == 10

\* default canvas of LifeDisplay
DefaultWidth == 800
DefaultHeight == 450

\* canvases of the display specification: the small ones and the default
Canvases == ((1..MaxCanvas) \X (1..MaxCanvas))
               \cup {<<DefaultWidth, DefaultHeight>>}

\* cells of the display specification: column 0 and one column far enough
\* for an edge to relax twice in a row under MARGIN; rows 0 and 1
FarCoord == MARGIN + 2
DrawCells == {0, FarCoord} \X {0, 1}
DrawCellSets == {d \in SUBSET DrawCells : Cardinality(d) <= MaxCells}

Renderers == {"LifeDisplay", "LifeDisplayAndGenerateImages0",
              "LifeDisplayAndGenerateImages"}

(***************************************************************************)
(* Python values.                                                          *)
(***************************************************************************)
\* None and an int, as one shape (val is 0 for None)
None == [some |-> FALSE, val |-> 0]
Some(v) == [some |-> TRUE, val |-> v]

\* the least and the greatest element of a non-empty set of integers
SetMin(S) == CHOOSE x \in S : \A y \in S : x <= y
SetMax(S) == CHOOSE x \in S : \A y \in S : x >= y

\* min() with a default: the empty sequence yields 0 instead of raising
PyMin_default(S) == IF S = {} THEN [raised |-> "none", val |-> 0]
                    ELSE [raised |-> "none", val |-> SetMin(S)]

\* builtin min(list): raises ValueError on an empty sequence
PyMin(S) == IF S = {} THEN [raised |-> "ValueError", val |-> 0]
            ELSE [raised |-> "none", val |-> SetMin(S)]

\* builtin max(list): raises ValueError on an empty sequence
PyMax(S) == IF S = {} THEN [raised |-> "ValueError", val |-> 0]
            ELSE [raised |-> "none", val |-> SetMax(S)]

(***************************************************************************)
(* class Margin                                                            *)
(***************************************************************************)
\* a Margin whose value starts at 0 instead of None
Margin_init_zero(margin) == [margin |-> margin, value |-> Some(0)]

\* Margin.__init__
Margin_init(margin) == [margin |-> margin, value |-> None]

\* set_min relaxing when the candidate is at the edge of the margin too
set_min_ge(self, new_value) ==
    [self EXCEPT !.value = Some(
        IF ~self.value.some \/ new_value < self.value.val THEN new_value
        ELSE IF new_value >= self.value.val + self.margin
             THEN self.value.val + 1
        ELSE self.value.val)]

\* set_min relaxing all the way to the edge of the margin in one call
set_min_jump(self, new_value) ==
    [self EXCEPT !.value = Some(
        IF ~self.value.some \/ new_value < self.value.val THEN new_value
        ELSE IF new_value > self.value.val + self.margin
             THEN new_value - self.margin
        ELSE self.value.val)]

\* set_min that keeps the first value: no snap to a lower candidate
set_min_nosnap(self, new_value) ==
    [self EXCEPT !.value = Some(
        IF ~self.value.some THEN new_value
        ELSE IF new_value > self.value.val + self.margin
             THEN self.value.val + 1
        ELSE self.value.val)]

\* set_min relaxing by two
set_min_two(self, new_value) ==
    [self EXCEPT !.value = Some(
        IF ~self.value.some \/ new_value < self.value.val THEN new_value
        ELSE IF new_value > self.value.val + self.margin
             THEN self.value.val + 2
        ELSE self.value.val)]

\* Margin.set_min: the Margin after the call; the call returns its value
set_min(self, new_value) ==
    [self EXCEPT !.value = Some(
        IF ~self.value.some \/ new_value < self.value.val THEN new_value
        ELSE IF new_value > self.value.val + self.margin
             THEN self.value.val + 1
        ELSE self.value.val)]

\* set_max relaxing when the candidate is at the edge of the margin too
set_max_le(self, new_value) ==
    [self EXCEPT !.value = Some(
        IF ~self.value.some \/ new_value > self.value.val THEN new_value
        ELSE IF new_value <= self.value.val - self.margin
             THEN self.value.val - 1
        ELSE self.value.val)]

\* set_max comparing against value + margin, as set_min does
set_max_plus(self, new_value) ==
    [self EXCEPT !.value = Some(
        IF ~self.value.some \/ new_value > self.value.val THEN new_value
        ELSE IF new_value < self.value.val + self.margin
             THEN self.value.val - 1
        ELSE self.value.val)]

\* Margin.set_max: the Margin after the call; the call returns its value
set_max(self, new_value) ==
    [self EXCEPT !.value = Some(
        IF ~self.value.some \/ new_value > self.value.val THEN new_value
        ELSE IF new_value < self.value.val - self.margin
             THEN self.value.val - 1
        ELSE self.value.val)]

\* Margin.get_value
get_value(self) == self.value

(***************************************************************************)
(* class MarginFrame                                                       *)
(***************************************************************************)
\* MarginFrame.__init__
MarginFrame_init(margin) ==
    [x_min |-> Margin_init(margin), y_min |-> Margin_init(margin),
     x_max |-> Margin_init(margin), y_max |-> Margin_init(margin)]

\* MarginFrame.set feeding the inclusive maxima (no + 1) to set_max
MarginFrame_set_noinc(self, ds) ==
    LET xs == {d[1] : d \in ds}
        ys == {d[2] : d \in ds}
        a1 == PyMin(xs)
        a2 == PyMin(ys)
        a3 == PyMax(xs)
        a4 == PyMax(ys)
    IN IF a1.raised # "none"
         THEN [self |-> self, raised |-> a1.raised, ret |-> <<>>]
       ELSE LET x1 == set_min(self.x_min, a1.val) IN
       IF a2.raised # "none"
         THEN [self |-> [self EXCEPT !.x_min = x1],
               raised |-> a2.raised, ret |-> <<>>]
       ELSE LET y1 == set_min(self.y_min, a2.val) IN
       IF a3.raised # "none"
         THEN [self |-> [self EXCEPT !.x_min = x1, !.y_min = y1],
               raised |-> a3.raised, ret |-> <<>>]
       ELSE LET x2 == set_max(self.x_max, a3.val) IN
       IF a4.raised # "none"
         THEN [self |-> [self EXCEPT !.x_min = x1, !.y_min = y1, !.x_max = x2],
               raised |-> a4.raised, ret |-> <<>>]
       ELSE LET y2 == set_max(self.y_max, a4.val) IN
            [self |-> [x_min |-> x1, y_min |-> y1, x_max |-> x2, y_max |-> y2],
             raised |-> "none",
             ret |-> <<x1.value.val, y1.value.val, x2.value.val, y2.value.val>>]

\* MarginFrame.set whose _set_y_min works on the x_min Margin
MarginFrame_set_cross(self, ds) ==
    LET xs == {d[1] : d \in ds}
        ys == {d[2] : d \in ds}
        a1 == PyMin(xs)
        a2 == PyMin(ys)
        a3 == PyMax(xs)
        a4 == PyMax(ys)
    IN IF a1.raised # "none"
         THEN [self |-> self, raised |-> a1.raised, ret |-> <<>>]
       ELSE LET x1 == set_min(self.x_min, a1.val) IN
       IF a2.raised # "none"
         THEN [self |-> [self EXCEPT !.x_min = x1],
               raised |-> a2.raised, ret |-> <<>>]
       ELSE LET y1 == set_min(self.x_min, a2.val) IN
       IF a3.raised # "none"
         THEN [self |-> [self EXCEPT !.x_min = x1, !.y_min = y1],
               raised |-> a3.raised, ret |-> <<>>]
       ELSE LET x2 == set_max(self.x_max, a3.val + 1) IN
       IF a4.raised # "none"
         THEN [self |-> [self EXCEPT !.x_min = x1, !.y_min = y1, !.x_max = x2],
               raised |-> a4.raised, ret |-> <<>>]
       ELSE LET y2 == set_max(self.y_max, a4.val + 1) IN
            [self |-> [x_min |-> x1, y_min |-> y1, x_max |-> x2, y_max |-> y2],
             raised |-> "none",
             ret |-> <<x1.value.val, y1.value.val, x2.value.val, y2.value.val>>]

\* MarginFrame.set: the four elements of the returned tuple are evaluated
\* in order; an exception of min/max leaves the Margins updated so far.
\* The result is the frame after the call, the exception and the tuple.
MarginFrame_set(self, ds) ==
    LET xs == {d[1] : d \in ds}
        ys == {d[2] : d \in ds}
        a1 == PyMin(xs)
        a2 == PyMin(ys)
        a3 == PyMax(xs)
        a4 == PyMax(ys)
    IN IF a1.raised # "none"
         THEN [self |-> self, raised |-> a1.raised, ret |-> <<>>]
       ELSE LET x1 == set_min(self.x_min, a1.val) IN
       IF a2.raised # "none"
         THEN [self |-> [self EXCEPT !.x_min = x1],
               raised |-> a2.raised, ret |-> <<>>]
       ELSE LET y1 == set_min(self.y_min, a2.val) IN
       IF a3.raised # "none"
         THEN [self |-> [self EXCEPT !.x_min = x1, !.y_min = y1],
               raised |-> a3.raised, ret |-> <<>>]
       ELSE LET x2 == set_max(self.x_max, a3.val + 1) IN
       IF a4.raised # "none"
         THEN [self |-> [self EXCEPT !.x_min = x1, !.y_min = y1, !.x_max = x2],
               raised |-> a4.raised, ret |-> <<>>]
       ELSE LET y2 == set_max(self.y_max, a4.val + 1) IN
            [self |-> [x_min |-> x1, y_min |-> y1, x_max |-> x2, y_max |-> y2],
             raised |-> "none",
             ret |-> <<x1.value.val, y1.value.val, x2.value.val, y2.value.val>>]

(***************************************************************************)
(* class LifeDisplay and its two recording subclasses.  The quotients of   *)
(* draw are kept as exact fractions <<numerator, denominator>>.            *)
(***************************************************************************)
\* int(a / b) for b > 0: truncation towards zero
Trunc(a, b) == IF a >= 0 THEN a \div b ELSE 0 - ((0 - a) \div b)

\* cell size taken from the looser axis
CellSize_max(rect, width, height) ==
    IF width * (rect[4] - rect[2]) >= height * (rect[3] - rect[1])
      THEN <<width, rect[3] - rect[1]>>
      ELSE <<height, rect[4] - rect[2]>>

\* cell_size = min(width / (x_max - x_min), height / (y_max - y_min))
CellSize(rect, width, height) ==
    IF width * (rect[4] - rect[2]) <= height * (rect[3] - rect[1])
      THEN <<width, rect[3] - rect[1]>>
      ELSE <<height, rect[4] - rect[2]>>

\* px = int(w_center + (x - x_center) * cell_size), with
\* w_center = size / 2 and x_center = (lo + hi) / 2
Pixel(c, lo, hi, size, cs) ==
    Trunc(size * cs[2] + (2 * c - lo - hi) * cs[1], 2 * cs[2])

\* int(cell_size) if cell_size > 1.0 else 1
Side(cs) == IF cs[1] > cs[2] THEN cs[1] \div cs[2] ELSE 1

\* the pygame.Rect(px, py, side, side) drawn for the cells of ds
ScreenRects(rect, ds, width, height) ==
    LET cs == CellSize(rect, width, height)
    IN {<<Pixel(d[1], rect[1], rect[3], width, cs),
          Pixel(d[2], rect[2], rect[4], height, cs),
          Side(cs), Side(cs)>> : d \in ds}

\* the (x0, y0, x1, y1) given to ImageDraw.rectangle for the cells of ds:
\* "px + int(cell_size) if cell_size > 1.0 else 1" is
\* "(px + int(cell_size)) if cell_size > 1.0 else 1"
ImageRects(rect, ds, width, height) ==
    LET cs == CellSize(rect, width, height)
    IN {LET px == Pixel(d[1], rect[1], rect[3], width, cs)
            py == Pixel(d[2], rect[2], rect[4], height, cs)
        IN <<px, py,
             IF cs[1] > cs[2] THEN px + cs[1] \div cs[2] ELSE 1,
             IF cs[1] > cs[2] THEN py + cs[1] \div cs[2] ELSE 1>> : d \in ds}

\* an image: nothing, a pixel copy of the screen, or ImageDraw rectangles
NoImage == [src |-> "none", shapes |-> {}]

\* LifeDisplay.draw on self = [margin_frame, width, height, screen]: the
\* display after the call, the exception, and the rectangle it drew with
LifeDisplay_draw(self, ds) ==
    LET r == MarginFrame_set(self.margin_frame, ds)
    IN IF r.raised # "none"
         THEN [self |-> [self EXCEPT !.margin_frame = r.self],
               raised |-> r.raised, rect |-> <<>>]
         ELSE [self |-> [self EXCEPT
                            !.margin_frame = r.self,
                            !.screen = ScreenRects(r.ret, ds, self.width,
                                                   self.height)],
               raised |-> "none", rect |-> r.ret]

\* LifeDisplayAndGenerateImages0._get_image: the screen, pixel by pixel
get_image(self) == [src |-> "screen", shapes |-> self.screen]

\* the part of LifeDisplayAndGenerateImages.draw after super().draw: a
\* second margin_frame.set, and the rectangles drawn into the new image
Images_draw_image(self, ds) ==
    LET r == MarginFrame_set(self.margin_frame, ds)
    IN [self |-> [self EXCEPT !.margin_frame = r.self],
        raised |-> r.raised,
        rect |-> r.ret,
        image |-> IF r.raised # "none" THEN NoImage
                  ELSE [src |-> "rectangle",
                        shapes |-> ImageRects(r.ret, ds, self.width,
                                              self.height)]]

(***************************************************************************)
(* State.                                                                  *)
(***************************************************************************)
VARIABLES
    margin_frame,  \* the MarginFrame object (LifeDisplay.margin_frame)
    dots,          \* argument of the last MarginFrame.set call
    pre_frame,     \* the MarginFrame as it was before that call
    frame_ret,     \* tuple returned by that call, <<>> if none returned
    frame_err,     \* exception raised by that call, "none" if none
    frame_called,  \* a MarginFrame.set call has been made
    alone,         \* four standalone Margins, each fed the raw extents of
                   \* one edge only
    m,             \* the Margin object of the Margin specification
    m_op,          \* method of the last call on m: "init" before any call
    m_cand,        \* argument of the last call on m
    m_pre,         \* m as it was before the last call
    m_ret,         \* value returned by the last call on m
    m_prev_cand,   \* argument of the call before the last one
    m_calls,       \* number of calls made on m since its construction
    m_alt,         \* all calls so far are one method, arguments alternating
    m_streak,      \* the last calls are set_min(c) with one c, started
                   \* from a value v with c > v + margin
    trace_args,    \* arguments of the calls made on m, in call order
    trace_rets,    \* values returned by those calls, in call order
    renderer,      \* class of the display, "none" without a display
    width,         \* LifeDisplay.width
    height,        \* LifeDisplay.height
    screen,        \* the rectangles on LifeDisplay.screen
    screen_rect,   \* rectangle the last draw rendered the screen with
    image,         \* last element of images
    image_rect,    \* rectangle that image was rendered with
    n_images,      \* len(images)
    n_set,         \* number of margin_frame.set calls of the last draw
    once_frame,    \* the MarginFrame of a LifeDisplay given the same frames
    fixed          \* the call repeated for ever, mode "none" if there is none

frame_vars == <<margin_frame, dots, pre_frame, frame_ret, frame_err,
                frame_called, alone>>
margin_vars == <<m, m_op, m_cand, m_pre, m_ret, m_prev_cand, m_calls,
                 m_alt, m_streak>>
trace_vars == <<trace_args, trace_rets>>
draw_vars == <<renderer, width, height, screen, screen_rect, image,
               image_rect, n_images, n_set, once_frame>>
repeat_vars == <<fixed>>
vars == <<frame_vars, margin_vars, trace_vars, draw_vars, repeat_vars>>

(***************************************************************************)
(* Specification Spec: a MarginFrame and its set calls.                    *)
(***************************************************************************)
FrameIdle ==
    /\ alone = MarginFrame_init(margin_frame.x_min.margin)
    /\ dots = {}
    /\ frame_ret = <<>>
    /\ frame_err = "none"
    /\ frame_called = FALSE

MarginIdle ==
    /\ m_op = "init"
    /\ m_cand = 0
    /\ m_ret = 0
    /\ m_prev_cand = 0
    /\ m_calls = 0
    /\ m_alt = TRUE
    /\ m_streak = FALSE

TraceIdle ==
    /\ trace_args = <<>>
    /\ trace_rets = <<>>

NoDraws ==
    /\ screen = {}
    /\ screen_rect = <<>>
    /\ image = NoImage
    /\ image_rect = <<>>
    /\ n_images = 0
    /\ n_set = 0

RepeatIdle == fixed = [mode |-> "none", op |-> "none", cand |-> 0, dots |-> {}]

DrawIdle ==
    /\ RepeatIdle
    /\ renderer = "none"
    /\ width = 0
    /\ height = 0
    /\ once_frame = MarginFrame_init(0)
    /\ NoDraws

Init ==
    /\ \E margin \in Margins :
          /\ margin_frame = MarginFrame_init(margin)
          /\ pre_frame = MarginFrame_init(margin)
    /\ FrameIdle
    /\ m = Margin_init(0)
    /\ m_pre = Margin_init(0)
    /\ MarginIdle
    /\ TraceIdle
    /\ DrawIdle

\* one call margin_frame.set(ds)
Set ==
    \E ds \in CellSets :
       \E r \in {MarginFrame_set(margin_frame, ds)} :
          /\ margin_frame' = r.self
          /\ dots' = ds
          /\ pre_frame' = margin_frame
          /\ frame_ret' = r.ret
          /\ frame_err' = r.raised
          /\ frame_called' = TRUE
          /\ alone' = IF ds = {} THEN alone
                       ELSE [x_min |-> set_min(alone.x_min,
                                               SetMin({d[1] : d \in ds})),
                             y_min |-> set_min(alone.y_min,
                                               SetMin({d[2] : d \in ds})),
                             x_max |-> set_max(alone.x_max,
                                               SetMax({d[1] : d \in ds}) + 1),
                             y_max |-> set_max(alone.y_max,
                                               SetMax({d[2] : d \in ds}) + 1)]
          /\ UNCHANGED <<margin_vars, trace_vars, draw_vars, repeat_vars>>

Next == Set

Spec == Init /\ [][Next]_vars

(***************************************************************************)
(* Specification SpecMargin: one Margin and its set_min / set_max calls.   *)
(***************************************************************************)
InitMargin ==
    /\ \E margin \in Margins :
          /\ m = Margin_init(margin)
          /\ m_pre = Margin_init(margin)
    /\ MarginIdle
    /\ margin_frame = MarginFrame_init(0)
    /\ pre_frame = MarginFrame_init(0)
    /\ FrameIdle
    /\ TraceIdle
    /\ DrawIdle

\* bookkeeping of a call of method op with argument c
Called(op, c) ==
    /\ m_op' = op
    /\ m_cand' = c
    /\ m_pre' = m
    /\ m_ret' = m'.value.val
    /\ m_prev_cand' = m_cand
    /\ m_calls' = m_calls + 1
    /\ m_alt' = IF m_calls = 0 THEN TRUE
                ELSE IF m_calls = 1 THEN m_op = op
                ELSE m_alt /\ m_op = op /\ c = m_prev_cand
    /\ m_streak' = /\ op = "set_min"
                   /\ \/ m.value.some /\ c > m.value.val + m.margin
                      \/ m_streak /\ m_op = "set_min" /\ c = m_cand
    /\ UNCHANGED <<frame_vars, draw_vars, repeat_vars>>

\* one call m.set_min(c)
CallSetMin ==
    /\ m_calls < MaxCalls
    /\ \E c \in Values :
          /\ m' = set_min(m, c)
          /\ Called("set_min", c)
    /\ UNCHANGED trace_vars

\* one call m.set_max(c)
CallSetMax ==
    /\ m_calls < MaxCalls
    /\ \E c \in Values :
          /\ m' = set_max(m, c)
          /\ Called("set_max", c)
    /\ UNCHANGED trace_vars

NextMargin == CallSetMin \/ CallSetMax

SpecMargin == InitMargin /\ [][NextMargin]_vars

(***************************************************************************)
(* Specification SpecTrace: a Margin of margin 10 and up to four set_min   *)
(* calls whose arguments are those of the documented scenario.             *)
(***************************************************************************)
\* the calls of the scenario, in order, and what they are to return
TraceCalls == <<5, 12, 20, 2>>
TraceReturns == <<5, 5, 6, 2>>
TraceCands == {TraceCalls[i] : i \in DOMAIN TraceCalls}

InitTrace ==
    /\ m = Margin_init(MARGIN)
    /\ m_pre = Margin_init(MARGIN)
    /\ MarginIdle
    /\ TraceIdle
    /\ DrawIdle
    /\ margin_frame = MarginFrame_init(0)
    /\ pre_frame = MarginFrame_init(0)
    /\ FrameIdle

\* one call m.set_min(c), recorded in the trace
TraceSetMin ==
    /\ Len(trace_args) < Len(TraceCalls)
    /\ \E c \in TraceCands :
          /\ m' = set_min(m, c)
          /\ Called("set_min", c)
          /\ trace_args' = Append(trace_args, c)
          /\ trace_rets' = Append(trace_rets, m'.value.val)

NextTrace == TraceSetMin

SpecTrace == InitTrace /\ [][NextTrace]_vars

(***************************************************************************)
(* Specification SpecDraw: one display and its draw calls.                 *)
(***************************************************************************)
InitDraw ==
    /\ renderer \in Renderers
    /\ \E canvas \in Canvases :
          /\ width = canvas[1]
          /\ height = canvas[2]
    /\ margin_frame = MarginFrame_init(MARGIN)
    /\ pre_frame = MarginFrame_init(MARGIN)
    /\ once_frame = MarginFrame_init(MARGIN)
    /\ FrameIdle
    /\ NoDraws
    /\ RepeatIdle
    /\ m = Margin_init(0)
    /\ m_pre = Margin_init(0)
    /\ MarginIdle
    /\ TraceIdle

\* the display object, as the draw methods see it
Display == [margin_frame |-> margin_frame, width |-> width,
            height |-> height, screen |-> screen]

\* bookkeeping of a draw(ds) call
Drawn(ds) ==
    /\ dots' = ds
    /\ pre_frame' = margin_frame
    /\ frame_called' = TRUE
    /\ UNCHANGED alone
    /\ once_frame' = MarginFrame_set(once_frame, ds).self
    /\ UNCHANGED <<renderer, width, height, margin_vars, trace_vars,
                   repeat_vars>>

\* LifeDisplay.draw(ds)
Draw ==
    /\ renderer = "LifeDisplay"
    /\ \E ds \in DrawCellSets :
       \E r \in {LifeDisplay_draw(Display, ds)} :
          /\ margin_frame' = r.self.margin_frame
          /\ screen' = r.self.screen
          /\ frame_err' = r.raised
          /\ frame_ret' = r.rect
          /\ screen_rect' = IF r.raised = "none" THEN r.rect ELSE screen_rect
          /\ n_set' = 1
          /\ UNCHANGED <<image, image_rect, n_images>>
          /\ Drawn(ds)

\* LifeDisplayAndGenerateImages0.draw(ds)
DrawImages0 ==
    /\ renderer = "LifeDisplayAndGenerateImages0"
    /\ n_images < MaxFrames
    /\ \E ds \in DrawCellSets :
       \E r \in {LifeDisplay_draw(Display, ds)} :
          /\ margin_frame' = r.self.margin_frame
          /\ screen' = r.self.screen
          /\ frame_err' = r.raised
          /\ frame_ret' = r.rect
          /\ n_set' = 1
          /\ IF r.raised = "none"
               THEN /\ screen_rect' = r.rect
                    /\ image' = get_image(r.self)
                    /\ image_rect' = r.rect
                    /\ n_images' = n_images + 1
               ELSE UNCHANGED <<screen_rect, image, image_rect, n_images>>
          /\ Drawn(ds)

\* LifeDisplayAndGenerateImages.draw(ds)
DrawImages ==
    /\ renderer = "LifeDisplayAndGenerateImages"
    /\ n_images < MaxFrames
    /\ \E ds \in DrawCellSets :
       \E r \in {LifeDisplay_draw(Display, ds)} :
          /\ screen' = r.self.screen
          /\ IF r.raised # "none"
               THEN /\ margin_frame' = r.self.margin_frame
                    /\ frame_err' = r.raised
                    /\ frame_ret' = r.rect
                    /\ n_set' = 1
                    /\ UNCHANGED <<screen_rect, image, image_rect, n_images>>
               ELSE \E q \in {Images_draw_image(r.self, ds)} :
                    /\ margin_frame' = q.self.margin_frame
                    /\ frame_err' = q.raised
                    /\ frame_ret' = q.rect
                    /\ n_set' = 2
                    /\ screen_rect' = r.rect
                    /\ image' = q.image
                    /\ image_rect' = q.rect
                    /\ n_images' = n_images + 1
          /\ Drawn(ds)

NextDraw == Draw \/ DrawImages0 \/ DrawImages

SpecDraw == InitDraw /\ [][NextDraw]_vars

(***************************************************************************)
(* Specification SpecRepeat: a Margin (mode "margin") or a MarginFrame     *)
(* (mode "frame") starts in any state a first call can leave it in, or     *)
(* fresh, and from then on receives the same call again and again.  The    *)
(* caller never stops calling: each repeated call is weakly fair.          *)
(***************************************************************************)
InitRepeat ==
    \/ /\ \E margin \in Margins :
              /\ m \in {Margin_init(margin)}
                       \cup {set_min(Margin_init(margin), v) : v \in Values}
              /\ m_pre = m
        /\ \E op \in {"set_min", "set_max"}, c \in Values :
              fixed = [mode |-> "margin", op |-> op, cand |-> c, dots |-> {}]
        /\ MarginIdle
        /\ TraceIdle
        /\ margin_frame = MarginFrame_init(0)
        /\ pre_frame = MarginFrame_init(0)
        /\ FrameIdle
        /\ renderer = "none" /\ width = 0 /\ height = 0
        /\ once_frame = MarginFrame_init(0)
        /\ NoDraws
    \/ /\ \E margin \in Margins :
              /\ margin_frame \in
                    {MarginFrame_init(margin)}
                       \cup {MarginFrame_set(MarginFrame_init(margin), ds).self
                                : ds \in CellSets \ {{}}}
              /\ pre_frame = margin_frame
        /\ \E ds \in CellSets \ {{}} :
              fixed = [mode |-> "frame", op |-> "set", cand |-> 0, dots |-> ds]
        /\ FrameIdle
        /\ m = Margin_init(0)
        /\ m_pre = Margin_init(0)
        /\ MarginIdle
        /\ TraceIdle
        /\ renderer = "none" /\ width = 0 /\ height = 0
        /\ once_frame = MarginFrame_init(0)
        /\ NoDraws

\* bookkeeping of a repeated call on m: the calls are not counted
Repeated ==
    /\ m_op' = fixed.op
    /\ m_cand' = fixed.cand
    /\ m_pre' = m
    /\ m_ret' = m'.value.val
    /\ UNCHANGED <<m_prev_cand, m_calls, m_alt, m_streak>>
    /\ UNCHANGED <<frame_vars, trace_vars, draw_vars, repeat_vars>>

\* one more call m.set_min(c) with the fixed c
RepeatSetMin ==
    /\ fixed.mode = "margin"
    /\ fixed.op = "set_min"
    /\ m' = set_min(m, fixed.cand)
    /\ Repeated

\* one more call m.set_max(c) with the fixed c
RepeatSetMax ==
    /\ fixed.mode = "margin"
    /\ fixed.op = "set_max"
    /\ m' = set_max(m, fixed.cand)
    /\ Repeated

\* one more call margin_frame.set(ds) with the fixed ds
RepeatSet ==
    /\ fixed.mode = "frame"
    /\ \E r \in {MarginFrame_set(margin_frame, fixed.dots)} :
          /\ margin_frame' = r.self
          /\ dots' = fixed.dots
          /\ pre_frame' = margin_frame
          /\ frame_ret' = r.ret
          /\ frame_err' = r.raised
          /\ frame_called' = TRUE
          /\ UNCHANGED <<alone, margin_vars, trace_vars, draw_vars,
                         repeat_vars>>

NextRepeat == RepeatSetMin \/ RepeatSetMax \/ RepeatSet

SpecRepeat ==
    /\ InitRepeat
    /\ [][NextRepeat]_vars
    /\ WF_vars(RepeatSetMin)
    /\ WF_vars(RepeatSetMax)
    /\ WF_vars(RepeatSet)

TypeOK ==
    /\ dots \in CellSets \cup DrawCellSets
    /\ frame_err \in {"none", "ValueError"}
    /\ m_op \in {"init", "set_min", "set_max"}
    /\ m_calls \in 0..MaxCalls
    /\ m.margin \in Margins \cup {MARGIN}
    /\ renderer \in Renderers \cup {"none"}
    /\ n_images \in 0..MaxFrames
    /\ n_set \in 0..2

(***************************************************************************)
(* Helpers of the properties.                                              *)
(***************************************************************************)
\* a MarginFrame.set call on a non-empty cell set has been made
SetDone == frame_called /\ dots # {}

\* candidates tried against the current Margins of the frame
Probe == (0 - 1)..(MaxCoord + 2)

Abs(i) == IF i < 0 THEN 0 - i ELSE i

\* the Margin mirrored at 0
Neg(self) == [margin |-> self.margin,
              value |-> IF self.value.some THEN Some(0 - self.value.val)
                        ELSE None]

\* the last call on m was set_min / set_max on a Margin holding a value
MinOnValue == m_op = "set_min" /\ m_pre.value.some
MaxOnValue == m_op = "set_max" /\ m_pre.value.some

(***************************************************************************)
(* C1. Non-clipping over time: with margin >= 0, the rectangle returned by *)
(* every MarginFrame.set call on a non-empty cell set contains every cell  *)
(* of that set (x_min <= x, y_min <= y, x_max >= x + 1, y_max >= y + 1);   *)
(* and in every reachable state set_min(c) returns at most c and           *)
(* set_max(c) returns at least c.                                          *)
(***************************************************************************)
NonClipping ==
    /\ SetDone =>
          /\ frame_err = "none"
          /\ \A d \in dots :
                /\ frame_ret[1] <= d[1]
                /\ frame_ret[2] <= d[2]
                /\ frame_ret[3] >= d[1] + 1
                /\ frame_ret[4] >= d[2] + 1
    /\ \A c \in Probe :
          /\ set_min(margin_frame.x_min, c).value.val <= c
          /\ set_min(margin_frame.y_min, c).value.val <= c
          /\ set_max(margin_frame.x_max, c).value.val >= c
          /\ set_max(margin_frame.y_max, c).value.val >= c

\* the left edge relaxed by one and still does not clip
NonClippingWitness ==
    /\ SetDone
    /\ pre_frame.x_min.value.some
    /\ frame_ret[1] = pre_frame.x_min.value.val + 1
    /\ \A d \in dots : frame_ret[1] <= d[1]

(***************************************************************************)
(* C2. After every MarginFrame.set call on a non-empty cell set the        *)
(* returned rectangle has x_max > x_min and y_max > y_min: the divisors of *)
(* LifeDisplay.draw are positive.                                          *)
(***************************************************************************)
PositiveExtent ==
    SetDone =>
       /\ frame_ret[3] > frame_ret[1]
       /\ frame_ret[4] > frame_ret[2]

\* the right edge relaxed down to a rectangle one cell wide
PositiveExtentWitness ==
    /\ SetDone
    /\ pre_frame.x_max.value.some
    /\ frame_ret[3] = pre_frame.x_max.value.val - 1
    /\ frame_ret[3] - frame_ret[1] = 1

(***************************************************************************)
(* C3. Snap-on-expansion: set_min(c) on a Margin whose value is absent, or *)
(* is v with c < v, returns exactly c and stores c.                        *)
(***************************************************************************)
SnapOnExpansion ==
    (m_op = "set_min" /\ (~m_pre.value.some \/ m_cand < m_pre.value.val)) =>
       /\ m_ret = m_cand
       /\ m.value = Some(m_cand)

\* a set_min call below the stored value
SnapOnExpansionWitness ==
    /\ MinOnValue
    /\ m_cand < m_pre.value.val
    /\ m.value = Some(m_cand)

(***************************************************************************)
(* C4. Absorption: set_min(c) on a Margin holding v with margin mg and     *)
(* v <= c <= v + mg returns v and leaves the stored value unchanged.       *)
(***************************************************************************)
Absorption ==
    (/\ MinOnValue
     /\ m_pre.value.val <= m_cand
     /\ m_cand <= m_pre.value.val + m_pre.margin) =>
       /\ m_ret = m_pre.value.val
       /\ m.value = m_pre.value

\* a candidate at the far edge of a non-zero margin is absorbed
AbsorptionWitness ==
    /\ MinOnValue
    /\ m_pre.margin > 0
    /\ m_cand = m_pre.value.val + m_pre.margin
    /\ m.value = m_pre.value

(***************************************************************************)
(* C5. Bounded relaxation rate: set_min(c) on a Margin holding v with      *)
(* margin mg and c > v + mg returns exactly v + 1 however large c is; no   *)
(* set_min call increases the value by more than 1 and no set_max call     *)
(* decreases it by more than 1.                                            *)
(***************************************************************************)
BoundedRelaxation ==
    /\ (MinOnValue /\ m_cand > m_pre.value.val + m_pre.margin) =>
          /\ m_ret = m_pre.value.val + 1
          /\ m.value = Some(m_pre.value.val + 1)
    /\ MinOnValue => m_ret <= m_pre.value.val + 1
    /\ MaxOnValue => m_ret >= m_pre.value.val - 1

\* a candidate more than one beyond the margin still moves the value by one
BoundedRelaxationWitness ==
    /\ MinOnValue
    /\ m_cand > m_pre.value.val + m_pre.margin + 1
    /\ m_ret = m_pre.value.val + 1

(***************************************************************************)
(* C6. Repeated relaxation.  As claimed: from a Margin holding v with      *)
(* margin mg and a candidate c > v + mg, repeated calls set_min(c) with    *)
(* the same c increase the returned value by exactly 1 per call until the  *)
(* returned value reaches c.                                               *)
(***************************************************************************)
RelaxUntilCandidate ==
    (m_streak /\ m_pre.value.val < m_cand) => m_ret = m_pre.value.val + 1

(***************************************************************************)
(* C6, amended: the repeated calls increase the returned value by exactly  *)
(* 1 per call until it reaches c - mg; from then on they return c - mg.    *)
(***************************************************************************)
RelaxUntilMargin ==
    m_streak =>
       IF m_pre.value.val < m_cand - m_pre.margin
         THEN m_ret = m_pre.value.val + 1
         ELSE /\ m_pre.value.val = m_cand - m_pre.margin
              /\ m_ret = m_pre.value.val

\* the repeated calls came to rest a non-zero margin below the candidate
RelaxUntilMarginWitness ==
    /\ m_streak
    /\ m_pre.margin > 0
    /\ m_ret = m_cand - m_pre.margin
    /\ m_ret = m_pre.value.val
    /\ m_calls >= 3

(***************************************************************************)
(* C7. Symmetry: set_max(c) on a Margin holding v (or nothing) returns the *)
(* negation of what set_min(-c) returns on a Margin holding -v (or         *)
(* nothing): it snaps up when the value is absent or c > v, returns v - 1  *)
(* when c < v - mg, and returns v otherwise.                               *)
(***************************************************************************)
Symmetry ==
    /\ m_op = "set_max" =>
          /\ m_ret = 0 - set_min(Neg(m_pre), 0 - m_cand).value.val
          /\ m = Neg(set_min(Neg(m_pre), 0 - m_cand))
          /\ m_ret = IF ~m_pre.value.some \/ m_cand > m_pre.value.val
                       THEN m_cand
                     ELSE IF m_cand < m_pre.value.val - m_pre.margin
                       THEN m_pre.value.val - 1
                     ELSE m_pre.value.val
    /\ \A c \in Values :
          set_max(m, c) = Neg(set_min(Neg(m), 0 - c))

\* a set_max call that relaxed a non-zero value downwards
SymmetryWitness ==
    /\ MaxOnValue
    /\ m_pre.value.val # 0
    /\ m_cand < m_pre.value.val - m_pre.margin
    /\ m_ret = m_pre.value.val - 1

(***************************************************************************)
(* C8. First-call containment: the first MarginFrame.set call on a freshly *)
(* constructed MarginFrame, for any non-empty cell set and any margin,     *)
(* returns exactly the tight bounding box (min x, min y, max x + 1,        *)
(* max y + 1); cells {(0,0),(3,4)} with margin 10 give (0,0,4,5).          *)
(***************************************************************************)
FirstCallContainment ==
    /\ (SetDone /\ \E margin \in Margins :
                      pre_frame = MarginFrame_init(margin)) =>
          /\ frame_ret[1] = SetMin({d[1] : d \in dots})
          /\ frame_ret[2] = SetMin({d[2] : d \in dots})
          /\ frame_ret[3] = SetMax({d[1] : d \in dots}) + 1
          /\ frame_ret[4] = SetMax({d[2] : d \in dots}) + 1
          /\ \A d \in dots : /\ frame_ret[1] <= d[1] /\ d[1] < frame_ret[3]
                             /\ frame_ret[2] <= d[2] /\ d[2] < frame_ret[4]
          /\ \E d \in dots : d[1] = frame_ret[1]
          /\ \E d \in dots : d[2] = frame_ret[2]
          /\ \E d \in dots : d[1] + 1 = frame_ret[3]
          /\ \E d \in dots : d[2] + 1 = frame_ret[4]
    /\ MarginFrame_set(MarginFrame_init(10), {<<0, 0>>, <<3, 4>>}).ret
          = <<0, 0, 4, 5>>

\* a first call on two cells whose corners are not cells of the set
FirstCallContainmentWitness ==
    /\ SetDone
    /\ pre_frame.x_min.value = None
    /\ Cardinality(dots) = 2
    /\ <<frame_ret[1], frame_ret[2]>> \notin dots
    /\ <<frame_ret[3] - 1, frame_ret[4] - 1>> \notin dots

JitterAbsorption ==
    (/\ m_alt
     /\ m_calls >= 3
     /\ Abs(m_cand - m_prev_cand) <= m.margin) => m_ret = m_pre.value.val

\* four alternating set_min calls whose second candidate lowered the value
JitterAbsorptionWitness ==
    /\ m_alt
    /\ m_calls >= 4
    /\ m_op = "set_min"
    /\ m_cand < m_prev_cand
    /\ m_prev_cand - m_cand <= m.margin
    /\ m_ret = m_cand

(***************************************************************************)
(* C11. Concrete trace: a Margin with margin 10 and absent value, called   *)
(* in order set_min(5), set_min(12), set_min(20), set_min(2), returns      *)
(* 5, 5, 6, 2 respectively.                                                *)
(***************************************************************************)
ConcreteTrace ==
    \A n \in 1..Len(TraceCalls) :
       trace_args = SubSeq(TraceCalls, 1, n) =>
          trace_rets = SubSeq(TraceReturns, 1, n)

\* the four calls of the scenario have been made
ConcreteTraceWitness ==
    /\ m.margin = 10
    /\ trace_args = <<5, 12, 20, 2>>
    /\ trace_rets = <<5, 5, 6, 2>>

(***************************************************************************)
(* Helpers of the display properties.                                      *)
(***************************************************************************)
\* a draw call on a non-empty cell set has been made
DrawDone == renderer # "none" /\ frame_called /\ dots # {}

\* max(1, truncate(cell_size))
ClaimedSide(cs) == IF cs[1] \div cs[2] > 1 THEN cs[1] \div cs[2] ELSE 1

(***************************************************************************)
(* C12. Exactly-once-per-frame: every draw(dots) call of every renderer    *)
(* invokes MarginFrame.set exactly once; the rectangle used to render the  *)
(* recorded image of a frame equals the rectangle used to render the       *)
(* screen for that frame; and the tracker after n frames is the tracker a  *)
(* plain LifeDisplay has after the same n frames.                          *)
(***************************************************************************)
ExactlyOncePerFrame ==
    (renderer # "none" /\ frame_called) =>
       /\ n_set = 1
       /\ margin_frame = once_frame
       /\ (dots # {} /\ image.src # "none") => image_rect = screen_rect

(***************************************************************************)
(* C13. Never a zero-size mark: on the screen and in the recorded image of *)
(* LifeDisplayAndGenerateImages, for every viewport and canvas, each live  *)
(* cell is drawn as a square anchored at its pixel origin (px, py) with    *)
(* side max(1, truncate(cell_size)); in the image, as the rectangle from   *)
(* (px, py) to (px + side, py + side).                                     *)
(***************************************************************************)
NeverZeroSizeMark ==
    DrawDone =>
       /\ LET cs == CellSize(screen_rect, width, height)
          IN screen =
                {<<Pixel(d[1], screen_rect[1], screen_rect[3], width, cs),
                   Pixel(d[2], screen_rect[2], screen_rect[4], height, cs),
                   ClaimedSide(cs), ClaimedSide(cs)>> : d \in dots}
       /\ image.src = "rectangle" =>
             LET cs == CellSize(image_rect, width, height)
             IN image.shapes =
                   {LET px == Pixel(d[1], image_rect[1], image_rect[3],
                                    width, cs)
                        py == Pixel(d[2], image_rect[2], image_rect[4],
                                    height, cs)
                    IN <<px, py, px + ClaimedSide(cs), py + ClaimedSide(cs)>>
                    : d \in dots}

(***************************************************************************)
(* C14. Nothing is clipped on the canvas: for positive integer canvas      *)
(* width and height and any sequence of draw calls on non-empty cell sets, *)
(* with cell_size = min(width / (x_max - x_min), height / (y_max - y_min)) *)
(* from the rectangle MarginFrame.set returned, every square drawn on the  *)
(* screen lies inside the canvas: 0 <= px, px + side <= width, 0 <= py,    *)
(* py + side <= height.  Viewport (0,0,4,5) on the 800x450 canvas has      *)
(* cell_size 90 and draws cell (0,0) at (220, 0) with side 90.             *)
(***************************************************************************)
NothingClipped ==
    /\ DrawDone =>
          /\ screen = ScreenRects(screen_rect, dots, width, height)
          /\ \A r \in screen :
                /\ 0 <= r[1]
                /\ r[1] + r[3] <= width
                /\ 0 <= r[2]
                /\ r[2] + r[4] <= height
    /\ LET cs == CellSize(<<0, 0, 4, 5>>, DefaultWidth, DefaultHeight)
       IN /\ cs[1] = 90 * cs[2]
          /\ ScreenRects(<<0, 0, 4, 5>>, {<<0, 0>>}, DefaultWidth,
                         DefaultHeight) = {<<220, 0, 90, 90>>}

\* a lagging viewport on a canvas narrower than it: squares of side 1, one
\* of them in the last pixel column
NothingClippedWitness ==
    /\ DrawDone
    /\ pre_frame.x_min.value.some
    /\ screen_rect[1] = pre_frame.x_min.value.val + 1
    /\ width < screen_rect[3] - screen_rect[1]
    /\ Cardinality(screen) = 2
    /\ \E r \in screen : r[3] = 1 /\ r[1] + r[3] = width /\ r[1] > 0


(***************************************************************************)
(* C15. Edge independence: after any sequence of MarginFrame.set calls     *)
(* each of the four returned edges equals what a standalone Margin of the  *)
(* same margin returns when fed only that edge's own sequence of raw       *)
(* extents (min x, min y, max x + 1, max y + 1); each call moves an edge   *)
(* from that edge's previous value and raw extent alone, so updating one   *)
(* edge never changes the stored value of another.                         *)
(***************************************************************************)
EdgeIndependence ==
    /\ margin_frame = alone
    /\ SetDone =>
          /\ frame_ret = <<alone.x_min.value.val, alone.y_min.value.val,
                           alone.x_max.value.val, alone.y_max.value.val>>
          /\ margin_frame.x_min
                = set_min(pre_frame.x_min, SetMin({d[1] : d \in dots}))
          /\ margin_frame.y_min
                = set_min(pre_frame.y_min, SetMin({d[2] : d \in dots}))
          /\ margin_frame.x_max
                = set_max(pre_frame.x_max, SetMax({d[1] : d \in dots}) + 1)
          /\ margin_frame.y_max
                = set_max(pre_frame.y_max, SetMax({d[2] : d \in dots}) + 1)

\* one call relaxed the left edge, snapped the right edge and left the
\* other two where they were
EdgeIndependenceWitness ==
    /\ SetDone
    /\ pre_frame.x_min.value.some
    /\ frame_ret[1] = pre_frame.x_min.value.val + 1
    /\ frame_ret[3] > pre_frame.x_max.value.val
    /\ frame_ret[2] = pre_frame.y_min.value.val
    /\ frame_ret[4] = pre_frame.y_max.value.val
    /\ frame_ret[2] # frame_ret[1]

(***************************************************************************)
(* C16. Convergence under constant input: from any reachable Margin state  *)
(* with margin mg >= 0, when the same candidate c is passed to set_min on  *)
(* every subsequent call, the stored value changes on finitely many calls  *)
(* only and then stays for ever at a value v with c - mg <= v <= c (for    *)
(* set_max: c <= v <= c + mg); and a MarginFrame fed the same cell set for *)
(* ever eventually returns one and the same rectangle.                     *)
(***************************************************************************)
\* the last call was the repeated one and changed nothing
MarginAtRest ==
    /\ m_op = fixed.op
    /\ m = m_pre
    /\ m.value.some
    /\ fixed.op = "set_min" =>
          /\ fixed.cand - m.margin <= m.value.val
          /\ m.value.val <= fixed.cand
    /\ fixed.op = "set_max" =>
          /\ fixed.cand <= m.value.val
          /\ m.value.val <= fixed.cand + m.margin

FrameAtRest ==
    /\ frame_called
    /\ dots = fixed.dots
    /\ margin_frame = pre_frame
    /\ frame_ret = <<margin_frame.x_min.value.val, margin_frame.y_min.value.val,
                     margin_frame.x_max.value.val, margin_frame.y_max.value.val>>

Convergence ==
    <>[](/\ fixed.mode = "margin" => MarginAtRest
         /\ fixed.mode = "frame" => FrameAtRest)

\* a Margin at rest a non-zero margin below the candidate it keeps getting
ConvergenceWitness ==
    /\ fixed.mode = "margin"
    /\ fixed.op = "set_min"
    /\ MarginAtRest
    /\ m.margin > 0
    /\ m.value.val = fixed.cand - m.margin
====
